---- MODULE Spec2Model ----
(***************************************************************************)
(* Query analysis and enrichment pipeline of UserQueryAgent                *)
(* (ecommerce_agents/agents/query_agent.py).                               *)
(*                                                                         *)
(* Python values are modelled as follows.  A str is a TLA+ string.  A dict *)
(* is a function whose DOMAIN is the set of keys present.  A list and a    *)
(* tuple are sequences.  None, where a dict is expected, is NoneVal.  The  *)
(* text-completion service is opaque: every call is answered by a reply    *)
(* chosen nondeterministically (a parsed JSON object, content that does    *)
(* not parse, or a service error).                                         *)
(***************************************************************************)
EXTENDS Integers, Sequences, FiniteSets, TLC

VARIABLES op, args, ret, calls, search, driver, store

vars == <<op, args, ret, calls, search, driver, store>>

\* What an operation of UserQueryAgent leaves alone: the search branches of
\* the research workflow, the interactive driver and the settings table.
others == <<search, driver, store>>

-----------------------------------------------------------------------------
(* Bounds *)

MaxQueryLen == 2

MaxAttempt == 2

MaxTemporalWords == 2

MaxResults == 2

MaxScanWords == 3

MaxApplications == 4

-----------------------------------------------------------------------------
(* Python values *)

NoneVal == [None |-> TRUE]

EmptyDict == [k \in {} |-> ""]

Put(d, k, v) == [x \in (DOMAIN d) \cup {k} |-> IF x = k THEN v ELSE d[x]]

\* `if v := d.get(k)` for a str-valued key: present and non-empty.
HasStr(d, k) == k \in DOMAIN d /\ d[k] # ""

\* truthiness of d.get(k) for a list-valued key.
HasList(d, k) == k \in DOMAIN d /\ d[k] # <<>>

\* `not d` for a dict-or-None value.
IsFalsy(d) == d = NoneVal \/ DOMAIN d = {}

\* bool(t) of a tuple: a tuple is falsy only when it is empty.
TupleTruthy(t) == Len(t) > 0

\* str.lower() on the strings that occur in the model.
Lower(s) ==
    CASE s = "Running Shoes" -> "running shoes"
      [] s = "Trends" -> "trends"
      [] s = "Fall" -> "fall"
      [] s = "Europe" -> "europe"
      [] s = "Global" -> "global"
      [] s = "Sustainability" -> "sustainability"
      [] s = "Footwear" -> "footwear"
      [] s = "US" -> "us"
      [] s = "Next Season" -> "next season"
      [] s = "Q1 2024" -> "q1 2024"
      [] OTHER -> s

RECURSIVE JoinSpace(_)
\* " ".join(parts)
JoinSpace(parts) ==
    IF parts = <<>> THEN ""
    ELSE IF Len(parts) = 1 THEN parts[1]
    ELSE parts[1] \o " " \o JoinSpace(Tail(parts))

RECURSIVE Strip(_)
\* str.strip() for blanks.
Strip(s) ==
    IF Len(s) > 0 /\ SubSeq(s, 1, 1) = " " THEN Strip(SubSeq(s, 2, Len(s)))
    ELSE IF Len(s) > 0 /\ SubSeq(s, Len(s), Len(s)) = " " THEN Strip(SubSeq(s, 1, Len(s) - 1))
    ELSE s

RECURSIVE IntToStr(_)
\* str(n) for n >= 0.
IntToStr(n) ==
    LET digit == <<"0", "1", "2", "3", "4", "5", "6", "7", "8", "9">>
    IN IF n < 10 THEN digit[n + 1] ELSE IntToStr(n \div 10) \o digit[(n % 10) + 1]

\* d.get(k, default)
GetOr(d, k, default) == IF k \in DOMAIN d THEN d[k] ELSE default

\* `t in s` for two strings.
Contains(s, t) ==
    \E i \in 1..(Len(s) - Len(t) + 1) : SubSeq(s, i, i + Len(t) - 1) = t

-----------------------------------------------------------------------------
(* Replies of the text-completion service *)

Ok(d) == [kind |-> "ok", json |-> d]

ServiceError == [kind |-> "error", json |-> EmptyDict]

Unparsable == [kind |-> "unparsable", json |-> EmptyDict]

\* A dict built from optional entries: opt[k] is <<>> (key absent) or <<v>>.
FromOptions(opt) == [k \in {x \in DOMAIN opt : opt[x] # <<>>} |-> opt[k][1]]

-----------------------------------------------------------------------------
(* Pattern library.  A query is the sequence of its whitespace-separated   *)
(* words; the words of the model consist of letters and digits only, so a  *)
(* regex word boundary \b is a word edge.                                  *)

Digits == {"0", "1", "2", "3", "4", "5", "6", "7", "8", "9"}

TEMPORAL_PATTERNS == <<"year", "season", "relative", "month", "period">>

LOCATION_PATTERNS == <<"global", "continent">>

SeasonWords == {"spring", "summer", "fall", "winter", "q1", "q2", "q3", "q4"}

RelativeWords ==
    {"current", "upcoming", "next", "future", "past", "previous", "recent", "latest"}

MonthWords ==
    {"january", "february", "march", "april", "may", "june", "july", "august",
     "september", "october", "november", "december"}

PeriodWords == {"daily", "weekly", "monthly", "quarterly", "yearly", "annual"}

GlobalWords == {"global", "worldwide", "international"}

ContinentWords == {"europe", "asia", "africa", "australia"}

STANDARD_SCOPE_AREAS ==
    <<"functionality", "aesthetic_appeal", "sustainability", "technology_integration",
      "health_wellness", "affordability", "seasonality", "exclusivity",
      "cultural_alignment", "innovation">>

OBJECTIVE_TERMS ==
    [trends |-> <<"pattern", "movement", "direction", "shift", "evolution">>,
     demand |-> <<"consumption", "need", "requirement", "market interest", "uptake">>,
     performance |-> <<"results", "achievement", "outcome", "track record", "effectiveness">>,
     comparison |-> <<"analysis", "evaluation", "assessment", "benchmark", "contrast">>]

\* Number of words the pattern matches at position i of w (0: no match there).
MatchLen(pattern, w, i) ==
    CASE pattern = "year" ->
           IF Len(w[i]) = 4 /\ SubSeq(w[i], 1, 2) = "20"
              /\ SubSeq(w[i], 3, 3) \in Digits /\ SubSeq(w[i], 4, 4) \in Digits
           THEN 1 ELSE 0
      [] pattern = "season" -> IF w[i] \in SeasonWords THEN 1 ELSE 0
      [] pattern = "relative" ->
           IF w[i] \in RelativeWords
           THEN (IF i < Len(w) /\ w[i + 1] = "season" THEN 2 ELSE 1)
           ELSE 0
      [] pattern = "month" -> IF w[i] \in MonthWords THEN 1 ELSE 0
      [] pattern = "period" -> IF w[i] \in PeriodWords THEN 1 ELSE 0
      [] pattern = "global" -> IF w[i] \in GlobalWords THEN 1 ELSE 0
      [] pattern = "continent" ->
           IF w[i] \in ContinentWords THEN 1
           ELSE IF w[i] \in {"north", "south"} /\ i < Len(w) /\ w[i + 1] = "america"
           THEN 2 ELSE 0

RECURSIVE FindIter(_, _, _)
\* re.finditer(pattern, text): the non-overlapping matches, left to right.
FindIter(pattern, w, i) ==
    IF i > Len(w) THEN <<>>
    ELSE LET n == MatchLen(pattern, w, i)
         IN IF n = 0 THEN FindIter(pattern, w, i + 1)
            ELSE <<[type |-> pattern, value |-> JoinSpace(SubSeq(w, i, i + n - 1))]>>
                 \o FindIter(pattern, w, i + n)

RECURSIVE ScanPatterns(_, _)
\* The loop over the pattern table appending every match, in table order.
ScanPatterns(patterns, w) ==
    IF patterns = <<>> THEN <<>>
    ELSE FindIter(Head(patterns), w, 1) \o ScanPatterns(Tail(patterns), w)

RECURSIVE InsertByLength(_, _)
InsertByLength(x, s) ==
    IF s = <<>> THEN <<x>>
    ELSE IF Len(Head(s).value) > Len(x.value)
    THEN <<Head(s)>> \o InsertByLength(x, Tail(s))
    ELSE <<x>> \o s

SortByLength_Unsorted(s) == s

RECURSIVE SortByLength(_)
\* list.sort(key=len(value), reverse=True): stable, longest value first.
SortByLength(s) ==
    IF s = <<>> THEN <<>> ELSE InsertByLength(Head(s), SortByLength(Tail(s)))

LowerWords(w) == [i \in 1..Len(w) |-> Lower(w[i])]

-----------------------------------------------------------------------------
(* Calendar *)

get_current_season_DecemberFall(month) ==
    IF month \in {1, 2} THEN "Winter"
    ELSE IF month \in {3, 4, 5} THEN "Spring"
    ELSE IF month \in {6, 7, 8} THEN "Summer"
    ELSE "Fall"

get_current_season(month) ==
    IF month \in {12, 1, 2} THEN "Winter"
    ELSE IF month \in {3, 4, 5} THEN "Spring"
    ELSE IF month \in {6, 7, 8} THEN "Summer"
    ELSE "Fall"

get_upcoming_season_NoWrap(month) ==
    LET seasons == <<"Winter", "Spring", "Summer", "Fall">>
        current_idx == CHOOSE i \in 1..4 : seasons[i] = get_current_season(month)
    IN seasons[IF current_idx < 4 THEN current_idx + 1 ELSE 4]

get_upcoming_season(month) ==
    LET seasons == <<"Winter", "Spring", "Summer", "Fall">>
        current_idx == CHOOSE i \in 1..4 : seasons[i] = get_current_season(month)
    IN seasons[(current_idx % 4) + 1]

-----------------------------------------------------------------------------
(* Component Validator.  Each operation returns [ret, calls]: the value    *)
(* returned and the text-completion calls it issued, in order.             *)

ValidatorResult_FailClosed(reply) ==
    IF reply.kind = "ok" /\ "is_valid" \in DOMAIN reply.json
    THEN <<reply.json["is_valid"],
           IF "suggestion" \in DOMAIN reply.json THEN reply.json["suggestion"] ELSE "">>
    ELSE <<FALSE, "">>

\* The body shared by the three LLM-backed validators: the reply is parsed
\* and result["is_valid"], result.get("suggestion", "") returned; a service
\* error, unparsable content or a missing key raises inside the try block.
ValidatorResult(reply) ==
    IF reply.kind = "ok" /\ "is_valid" \in DOMAIN reply.json
    THEN <<reply.json["is_valid"],
           IF "suggestion" \in DOMAIN reply.json THEN reply.json["suggestion"] ELSE "">>
    ELSE <<TRUE, "">>

validate_objective(objective, reply) ==
    [ret |-> ValidatorResult(reply), calls |-> <<"validate_objective">>]

validate_geographical(geo_context, reply) ==
    [ret |-> ValidatorResult(reply), calls |-> <<"validate_geographical">>]

validate_scope(scope, reply) ==
    [ret |-> ValidatorResult(reply), calls |-> <<"validate_scope">>]

\* c.lower() for one character.
LowerChar(c) ==
    CASE c = "A" -> "a" [] c = "B" -> "b" [] c = "C" -> "c" [] c = "D" -> "d"
      [] c = "E" -> "e" [] c = "F" -> "f" [] c = "G" -> "g" [] c = "H" -> "h"
      [] c = "I" -> "i" [] c = "J" -> "j" [] c = "K" -> "k" [] c = "L" -> "l"
      [] c = "M" -> "m" [] c = "N" -> "n" [] c = "O" -> "o" [] c = "P" -> "p"
      [] c = "Q" -> "q" [] c = "R" -> "r" [] c = "S" -> "s" [] c = "T" -> "t"
      [] c = "U" -> "u" [] c = "V" -> "v" [] c = "W" -> "w" [] c = "X" -> "x"
      [] c = "Y" -> "y" [] c = "Z" -> "z"
      [] OTHER -> c

RECURSIVE LowerText(_)
\* temporal.lower(), character by character.
LowerText(s) ==
    IF Len(s) = 0 THEN ""
    ELSE LowerChar(SubSeq(s, 1, 1)) \o LowerText(SubSeq(s, 2, Len(s)))

RECURSIVE Split(_)
\* str.split(): the maximal runs of non-blank characters.
Split(s) ==
    IF Len(s) = 0 THEN <<>>
    ELSE IF SubSeq(s, 1, 1) = " " THEN Split(SubSeq(s, 2, Len(s)))
    ELSE LET blanks == {i \in 1..Len(s) : SubSeq(s, i, i) = " "}
             n == IF blanks = {} THEN Len(s) + 1
                  ELSE CHOOSE i \in blanks : \A j \in blanks : i <= j
         IN <<SubSeq(s, 1, n - 1)>> \o Split(SubSeq(s, n, Len(s)))

\* word.isdigit()
IsDigit(word) ==
    Len(word) > 0 /\ \A i \in 1..Len(word) : SubSeq(word, i, i) \in Digits

RelativePhrases == {"next season", "upcoming season", "future"}

HasSeason_WithQuarters(words) ==
    \E i \in 1..Len(words) : words[i] \in SeasonWords

\* has_season = any(season in words for season in seasons)
HasSeason(words) ==
    \E season \in {"spring", "summer", "fall", "winter"} :
      \E i \in 1..Len(words) : words[i] = season

HasYear_ThisCentury(words) ==
    \E i \in 1..Len(words) : MatchLen("year", words, i) = 1

\* has_year = any(word.isdigit() and len(word) == 4 for word in words)
HasYear(words) ==
    \E i \in 1..Len(words) : IsDigit(words[i]) /\ Len(words[i]) = 4

AppendYear_NoSpace(temporal, year) == temporal \o IntToStr(year)

\* f"{temporal} {self.current_year}"
AppendYear(temporal, year) == temporal \o " " \o IntToStr(year)

TemporalRejection ==
    "Please provide a season (Spring, Summer, Fall, Winter) with an optional year"

\* Purely local: no text-completion call.  now = [year, month].
validate_temporal(temporal, now) ==
    LET words == Split(LowerText(temporal))
        has_season == HasSeason(words)
        has_year == HasYear(words)
    IN [ret |->
          IF temporal = "" THEN <<TRUE, "">>
          ELSE IF LowerText(temporal) \in RelativePhrases
          THEN <<TRUE, AppendYear(get_upcoming_season(now.month), now.year)>>
          ELSE IF has_season /\ has_year THEN <<TRUE, temporal>>
          ELSE IF has_season THEN <<TRUE, AppendYear(temporal, now.year)>>
          ELSE <<FALSE, TemporalRejection>>,
        calls |-> <<>>]

-----------------------------------------------------------------------------
(* Component Extractor *)

ProductKeywords == {"shoes", "clothing", "apparel"}

JoinComma(parts) ==
    LET F[i \in 0..Len(parts)] ==
          IF i = 0 THEN ""
          ELSE IF i = 1 THEN parts[1]
          ELSE F[i - 1] \o ", " \o parts[i]
    IN F[Len(parts)]

MissingLabel ==
    [focus_term |-> "product or topic",
     objective |-> "research objective (trends/demand/performance/comparison)",
     scope |-> "analysis areas (suggested: "
                 \o JoinComma(SubSeq(STANDARD_SCOPE_AREAS, 1, 5)) \o ")",
     temporal_context |-> "time reference (e.g., current, next season)",
     geographical_context |-> "location reference (e.g., global, Europe)"]

RequiredOrder ==
    <<"focus_term", "objective", "scope", "temporal_context", "geographical_context">>

RECURSIVE MissingComponents(_, _)
\* The five `if k not in components: missing.append(...)` statements.
MissingComponents(components, keys) ==
    IF keys = <<>> THEN <<>>
    ELSE (IF Head(keys) \in DOMAIN components THEN <<>> ELSE <<MissingLabel[Head(keys)]>>)
         \o MissingComponents(components, Tail(keys))

\* query: the words of the query; previous_focus: the words of the previous
\* focus, <<>> for None.  The text the prompts and the regex scans work on.
EffectiveQuery(query, previous_focus) ==
    IF previous_focus # <<>>
       /\ ~ \E term \in ProductKeywords : Contains(JoinSpace(LowerWords(query)), term)
    THEN previous_focus \o query
    ELSE query

\* `if await self.validate_objective(objective):` and the same test on
\* validate_scope: the truth value of what the validator returned.
ValidatorAccepts(verdict) == TupleTruthy(verdict)

\* temporal_matches[0]['value'] after the sort, as <<value>>; <<>>: no match.
TemporalContextOf(q) ==
    LET temporal_matches == SortByLength(ScanPatterns(TEMPORAL_PATTERNS, LowerWords(q)))
    IN IF temporal_matches # <<>> THEN <<temporal_matches[1].value>> ELSE <<>>

\* location_matches[0]['value'], as <<value>>; <<>>: no match.
LocationContextOf(q) ==
    LET location_matches == ScanPatterns(LOCATION_PATTERNS, LowerWords(q))
    IN IF location_matches # <<>> THEN <<location_matches[1].value>> ELSE <<>>

NeedsValidation_IgnoresUnmatched(attempt, missing, analysis) ==
    attempt = 1 /\ missing # <<>>

\* Step 3: on the first attempt, is the partial set returned with a
\* validation block?
NeedsValidation(attempt, missing, analysis) ==
    attempt = 1 /\ (missing # <<>> \/ HasList(analysis, "unmatched_terms"))

ValidationBlock(attempt, missing, analysis) ==
    [unmatched_terms |-> IF "unmatched_terms" \in DOMAIN analysis
                         THEN analysis["unmatched_terms"] ELSE <<>>,
     missing_components |-> missing,
     attempt |-> attempt]

ApplyDefaults_WithScope(components) ==
    LET d1 == IF "objective" \in DOMAIN components THEN components
              ELSE Put(components, "objective", "trends")
        d2 == IF "geographical_context" \in DOMAIN d1 THEN d1
              ELSE Put(d1, "geographical_context", "global")
        d3 == IF "temporal_context" \in DOMAIN d2 THEN d2
              ELSE Put(d2, "temporal_context", "current")
    IN IF "scope" \in DOMAIN d3 THEN d3 ELSE Put(d3, "scope", "functionality")

\* Step 4: the defaults of a later attempt.
ApplyDefaults(components) ==
    LET d1 == IF "objective" \in DOMAIN components THEN components
              ELSE Put(components, "objective", "trends")
        d2 == IF "geographical_context" \in DOMAIN d1 THEN d1
              ELSE Put(d1, "geographical_context", "global")
    IN IF "temporal_context" \in DOMAIN d2 THEN d2
       ELSE Put(d2, "temporal_context", "current")

DerivedContext_PrefersLLM(analysis, key, match) ==
    IF HasStr(analysis, key) THEN <<analysis[key]>> ELSE match

\* The value stored for temporal_context / geographical_context: the regex
\* match alone; analysis[key], which the prompt also requests, is never read.
DerivedContext(analysis, key, match) == match

\* Step 2: the components taken from the analysis and the regex scans.
\* reply, objReply, scopeReply: the service's answers to the analysis prompt
\* and to the two validation prompts (the latter two are consumed only if
\* the corresponding call is made).
ExtractComponents(q, analysis, objReply, scopeReply) ==
    LET c1 == IF HasStr(analysis, "focus_term")
              THEN Put(EmptyDict, "focus_term", Lower(analysis["focus_term"]))
              ELSE EmptyDict
        c2 == IF HasStr(analysis, "objective")
                 /\ ValidatorAccepts(validate_objective(analysis["objective"], objReply).ret)
              THEN Put(c1, "objective", Lower(analysis["objective"]))
              ELSE c1
        t == DerivedContext(analysis, "temporal_context", TemporalContextOf(q))
        c3 == IF t # <<>> THEN Put(c2, "temporal_context", t[1]) ELSE c2
        g == DerivedContext(analysis, "geographical_context", LocationContextOf(q))
        c4 == IF g # <<>> THEN Put(c3, "geographical_context", g[1]) ELSE c3
    IN IF HasStr(analysis, "scope")
          /\ ValidatorAccepts(validate_scope(analysis["scope"], scopeReply).ret)
       THEN Put(c4, "scope", Lower(analysis["scope"]))
       ELSE c4

analyze_query_terms(query, attempt, previous_focus, reply, objReply, scopeReply) ==
    LET q == EffectiveQuery(query, previous_focus)
        analysis == reply.json
        components == ExtractComponents(q, analysis, objReply, scopeReply)
        missing == MissingComponents(components, RequiredOrder)
    IN IF reply.kind # "ok"
       THEN [ret |-> EmptyDict, calls |-> <<"analyze_query_terms">>]
       ELSE [ret |->
               IF NeedsValidation(attempt, missing, analysis)
               THEN Put(components, "validation",
                        ValidationBlock(attempt, missing, analysis))
               ELSE IF attempt > 1 THEN ApplyDefaults(components)
               ELSE components,
             calls |-> <<"analyze_query_terms">>
                       \o (IF HasStr(analysis, "objective")
                           THEN validate_objective(analysis["objective"], objReply).calls
                           ELSE <<>>)
                       \o (IF HasStr(analysis, "scope")
                           THEN validate_scope(analysis["scope"], scopeReply).calls
                           ELSE <<>>)]

-----------------------------------------------------------------------------
(* Enrichment Engine.  now = [year, month] is what datetime.now() gives.   *)

get_product_category(focus_term, reply) ==
    [ret |-> IF reply.kind = "ok"
             THEN Lower(GetOr(reply.json, "category", "general"))
             ELSE "general",
     calls |-> <<"get_product_category">>]

LocationTerms_CaseSensitive(location) ==
    IF location = "global" THEN <<"Europe", "North America", "Asia">>
    ELSE IF Lower(location) \in {"europe", "asia", "africa", "north america",
                                 "south america", "australia"}
    THEN <<location>>
    ELSE <<>>

LocationTerms(location) ==
    IF Lower(location) = "global" THEN <<"Europe", "North America", "Asia">>
    ELSE IF Lower(location) \in {"europe", "asia", "africa", "north america",
                                 "south america", "australia"}
    THEN <<location>>
    ELSE <<>>

SeasonMonth ==
    [Spring |-> "March", Summer |-> "June", Fall |-> "September", Winter |-> "December"]

past_season_map ==
    [Spring |-> "Winter", Summer |-> "Spring", Fall |-> "Summer", Winter |-> "Fall"]

TemporalTerms_CurrentYear(temporal, now) ==
    LET current_year == IntToStr(now.year)
    IN IF Contains(Lower(temporal), "next season")
       THEN LET next_season == get_upcoming_season(now.month)
            IN [terms |-> <<next_season \o " " \o current_year,
                            SeasonMonth[next_season] \o " " \o current_year>>,
                metadata |-> [duration |-> "12 months"]]
       ELSE IF Contains(Lower(temporal), "past season")
       THEN LET past_season == past_season_map[get_current_season(now.month)]
            IN [terms |-> <<past_season \o " " \o current_year,
                            SeasonMonth[past_season] \o " " \o current_year>>,
                metadata |-> [duration |-> "12 months"]]
       ELSE [terms |-> <<temporal>>, metadata |-> [duration |-> "12 months"]]

\* The temporal step for a str temporal context: [terms, metadata].
TemporalTerms(temporal, now) ==
    LET current_year == IntToStr(now.year)
    IN IF Contains(Lower(temporal), "next season")
       THEN LET next_season == get_upcoming_season(now.month)
                next_year == IntToStr(now.year + 1)
            IN [terms |-> <<next_season \o " " \o next_year,
                            SeasonMonth[next_season] \o " " \o next_year>>,
                metadata |-> [duration |-> "12 months"]]
       ELSE IF Contains(Lower(temporal), "past season")
       THEN LET past_season == past_season_map[get_current_season(now.month)]
            IN [terms |-> <<past_season \o " " \o current_year,
                            SeasonMonth[past_season] \o " " \o current_year>>,
                metadata |-> [duration |-> "12 months"]]
       ELSE [terms |-> <<temporal>>, metadata |-> [duration |-> "12 months"]]

EnrichedTerms_CaseSensitive(objective, json) ==
    IF objective \in DOMAIN OBJECTIVE_TERMS
    THEN Put(json, "objective", <<OBJECTIVE_TERMS[objective][1]>>)
    ELSE json

\* The result of the enrichment call once its reply has been parsed.
EnrichedTerms(objective, json) ==
    IF Lower(objective) \in DOMAIN OBJECTIVE_TERMS
    THEN Put(json, "objective", <<OBJECTIVE_TERMS[Lower(objective)][1]>>)
    ELSE json

\* What the except clause of enrich_query_data returns.
EnrichFailure == NoneVal

EnrichGuard_AnyDict(query_components) == query_components = NoneVal

\* `if not query_components or not query_components.get("focus_term")`
EnrichGuard(query_components) ==
    IsFalsy(query_components) \/ ~ HasStr(query_components, "focus_term")

\* A temporal context, when the key is present, is a str in every component
\* set the extractor and the interactive drivers build; an absent key reads
\* as the default {}, which is not a str.
enrich_query_data(query_components, now, catReply, reply) ==
    IF EnrichGuard(query_components)
    THEN [ret |-> NoneVal, calls |-> <<>>]
    ELSE
      LET focus == GetOr(query_components, "focus_term", "")
          objective == GetOr(query_components, "objective", "trends")
          location == GetOr(query_components, "geographical_context", "global")
          category == get_product_category(focus, catReply)
          t == IF "temporal_context" \in DOMAIN query_components
               THEN TemporalTerms(query_components["temporal_context"], now)
               ELSE [terms |-> <<>>, metadata |-> EmptyDict]
          metadata == [location_terms |-> LocationTerms(location),
                       temporal_terms |-> t.terms,
                       temporal |-> t.metadata,
                       category |-> category.ret]
      IN [ret |-> IF reply.kind = "ok"
                  THEN [original |-> query_components,
                        enriched |-> EnrichedTerms(objective, reply.json),
                        metadata |-> metadata]
                  ELSE EnrichFailure,
          calls |-> category.calls \o <<"enrich_query_data">>]

-----------------------------------------------------------------------------
(* Search Query Generator *)

\* None where a str is expected (metadata.get("category") without the key).
NoneStr == "None"

EmptyBundle == [keyword_queries |-> <<>>, semantic_queries |-> <<>>]

IncludeGeo_CaseSensitive(geo_context) == geo_context # "" /\ geo_context # "global"

\* `if geo_context and geo_context.lower() != "global"`
IncludeGeo(geo_context) == geo_context # "" /\ Lower(geo_context) # "global"

\* The keyword queries built before the semantic-query call.
KeywordQueries(enriched_data) ==
    LET original == GetOr(enriched_data, "original", EmptyDict)
        metadata == GetOr(enriched_data, "metadata", EmptyDict)
        focus == GetOr(original, "focus_term", "")
        objective == GetOr(original, "objective", "trends")
        geo_context == GetOr(original, "geographical_context", "global")
        temporal == GetOr(metadata, "temporal", EmptyDict)
        scope == GetOr(original, "scope", "")
        temporal_terms == GetOr(metadata, "temporal_terms", <<>>)
        hasGeo == IncludeGeo(geo_context)
        hasTemporal == temporal_terms # <<>> /\ temporal_terms[1] # ""
        hasScope == scope # ""
        entry(q) == [query |-> q,
                     metadata |-> [location |-> GetOr(metadata, "location_terms", <<>>),
                                   category |-> GetOr(metadata, "category", NoneStr),
                                   temporal |-> temporal]]
        query_parts == <<focus, objective>>
                       \o (IF hasGeo THEN <<geo_context>> ELSE <<>>)
                       \o (IF hasTemporal THEN <<temporal_terms[1]>> ELSE <<>>)
                       \o (IF hasScope THEN <<scope>> ELSE <<>>)
        full_query == Strip(JoinSpace(query_parts))
        base_query == focus \o " " \o objective
    IN <<entry(full_query)>>
       \o (IF base_query # full_query THEN <<entry(base_query)>> ELSE <<>>)
       \o (IF hasGeo THEN <<entry(focus \o " " \o objective \o " " \o geo_context)>>
           ELSE <<>>)
       \o (IF hasTemporal
           THEN <<entry(focus \o " " \o objective \o " " \o temporal_terms[1])>>
           ELSE <<>>)
       \o (IF hasScope THEN <<entry(focus \o " " \o objective \o " " \o scope)>>
           ELSE <<>>)

GenerateFailure_Reraises(queries) == NoneVal

\* What the except clause of generate_search_queries returns; queries is the
\* bundle as built when the exception was raised.
GenerateFailure(queries) == EmptyBundle

generate_search_queries(enriched_data, reply) ==
    IF IsFalsy(enriched_data)
    THEN [ret |-> EmptyBundle, calls |-> <<>>]
    ELSE
      LET original == GetOr(enriched_data, "original", EmptyDict)
          queries == [keyword_queries |-> KeywordQueries(enriched_data),
                      semantic_queries |-> <<>>]
      IN IF "focus_term" \notin DOMAIN original
         THEN \* original["focus_term"] raises while the prompt is formatted
              [ret |-> GenerateFailure(queries), calls |-> <<>>]
         ELSE [ret |-> IF reply.kind = "ok"
                       THEN [queries EXCEPT !.semantic_queries =
                                              GetOr(reply.json, "queries", <<>>)]
                       ELSE GenerateFailure(queries),
               calls |-> <<"generate_search_queries">>]

-----------------------------------------------------------------------------
(* Research workflow (workflows/research_workflow.py) *)

SearchTypes == {"keyword", "semantic"}

\* A search branch before _execute_search is entered: pc is its position,
\* outcomes the results of the invocations of search_func so far ("ok" or
\* "error"), sleeps the delays it has slept, result what the search returned.
IdleBranch == [pc |-> "idle", outcomes |-> <<>>, sleeps |-> <<>>, result |-> <<>>]

max_retries == 3

retry_delay == 1

RetryDelay_Constant(attempt) == retry_delay

\* asyncio.sleep(retry_delay * (attempt + 1)); attempt counts from 0.
RetryDelay(attempt) == retry_delay * (attempt + 1)

\* One iteration of the retry loop of _execute_search in branch b: the
\* invocation of search_func ends with `outcome` ("ok" with `result`, or
\* "error").
ExecuteSearchStep(b, outcome, result) ==
    LET attempt == Len(b.outcomes)
    IN IF outcome = "ok"
       THEN [b EXCEPT !.pc = "returned",
                      !.outcomes = Append(@, [status |-> "ok", result |-> result]),
                      !.result = result]
       ELSE IF attempt < max_retries - 1
       THEN [b EXCEPT !.pc = "sleep",
                      !.outcomes = Append(@, [status |-> "error", result |-> <<>>]),
                      !.sleeps = Append(@, RetryDelay(attempt))]
       ELSE [b EXCEPT !.pc = "raised",
                      !.outcomes = Append(@, [status |-> "error", result |-> <<>>])]

GatherReady_FirstException(s) ==
    \/ \E t \in SearchTypes : s[t].pc = "raised"
    \/ \A t \in SearchTypes : s[t].pc = "returned"

\* asyncio.gather(*search_tasks, return_exceptions=True) completes when
\* every task has returned or raised.
GatherReady(s) == \A t \in SearchTypes : s[t].pc \in {"returned", "raised"}

ScoreOf_MissingLast(x) == GetOr(x, "score", -100)

\* float(x.get('score', 0))
ScoreOf(x) == GetOr(x, "score", 0)

\* seen_urls[url] = result on a dict kept as the sequence of its items in
\* insertion order: an existing key keeps its place.
SetUrl(seen, result) ==
    IF \E i \in 1..Len(seen) : seen[i].url = result["url"]
    THEN [i \in 1..Len(seen) |->
            IF seen[i].url = result["url"] THEN [seen[i] EXCEPT !.result = result]
            ELSE seen[i]]
    ELSE Append(seen, [url |-> result["url"], result |-> result])

RECURSIVE SeenSemantic(_, _)
\* for result in semantic_results: seen_urls[url] = result
SeenSemantic(seen, semantic_results) ==
    IF semantic_results = <<>> THEN seen
    ELSE SeenSemantic(SetUrl(seen, Head(semantic_results)), Tail(semantic_results))

RECURSIVE SeenKeyword(_, _)
\* for result in keyword_results: if url not in seen_urls: seen_urls[url] = result
SeenKeyword(seen, keyword_results) ==
    IF keyword_results = <<>> THEN seen
    ELSE LET result == Head(keyword_results)
         IN SeenKeyword(IF \E i \in 1..Len(seen) : seen[i].url = result["url"]
                        THEN seen ELSE SetUrl(seen, result),
                        Tail(keyword_results))

RECURSIVE InsertByScore(_, _)
InsertByScore(x, s) ==
    IF s = <<>> THEN <<x>>
    ELSE IF ScoreOf(Head(s)) > ScoreOf(x)
    THEN <<Head(s)>> \o InsertByScore(x, Tail(s))
    ELSE <<x>> \o s

RECURSIVE SortByScore(_)
\* combined.sort(key=score, reverse=True): stable, highest score first.
SortByScore(s) ==
    IF s = <<>> THEN <<>> ELSE InsertByScore(Head(s), SortByScore(Tail(s)))

_combine_results(keyword_results, semantic_results) ==
    LET seen_urls == SeenKeyword(SeenSemantic(<<>>, semantic_results), keyword_results)
        combined == [i \in 1..Len(seen_urls) |-> seen_urls[i].result]
    IN SortByScore(combined)

-----------------------------------------------------------------------------
(* Admin settings (admin/settings.py, admin/api.py).  The table is the     *)
(* SQLite file every AdminAPI instance opens; an instance keeps no other   *)
(* state.                                                                  *)

\* AdminSettings(user_id=user_id): the declared fields with their defaults.
DefaultSettings(user_id) ==
    [user_id |-> user_id, personal_info |-> EmptyDict, business_details |-> EmptyDict,
     target_countries |-> <<>>, competitors |-> <<>>, main_urls |-> <<>>]

\* AdminSettings(**kwargs): declared fields are taken from kwargs, the
\* others keep their defaults; keyword arguments that name no declared
\* field are ignored.
AdminSettings(kwargs) ==
    LET defaults == DefaultSettings(kwargs["user_id"])
    IN [k \in DOMAIN defaults |-> IF k \in DOMAIN kwargs THEN kwargs[k] ELSE defaults[k]]

\* AdminStorage.get_settings
storage_get_settings(table, user_id) ==
    IF table[user_id] = <<>> THEN AdminSettings([user_id |-> user_id])
    ELSE AdminSettings(table[user_id][1])

\* AdminStorage.save_settings: INSERT OR REPLACE of settings.dict().
storage_save_settings(table, settings) ==
    [table EXCEPT ![settings["user_id"]] = <<settings>>]

\* AdminStorage.delete_settings
storage_delete_settings(table, user_id) == [table EXCEPT ![user_id] = <<>>]

\* hasattr(settings, key) for the keys of an UpdateSettingsRequest.
HasAttr(settings, key) == key \in DOMAIN settings

\* The loop of AdminAPI.update_settings over updates.dict(exclude_unset=True).
ApplyUpdates(settings, update_dict) ==
    [k \in (DOMAIN settings) \cup {x \in DOMAIN update_dict : HasAttr(settings, x)} |->
       IF k \in DOMAIN update_dict /\ HasAttr(settings, k) THEN update_dict[k]
       ELSE settings[k]]

\* AdminAPI.update_settings: [ret, table].
update_settings(table, user_id, updates) ==
    LET settings == ApplyUpdates(storage_get_settings(table, user_id), updates)
    IN [ret |-> settings, table |-> storage_save_settings(table, settings)]

\* AdminAPI.reset_settings: [ret, table].
reset_settings(table, user_id) ==
    LET settings == AdminSettings([user_id |-> user_id, name |-> "", first_name |-> "",
                                   business_name |-> "", target_countries |-> <<>>,
                                   competitors |-> <<>>, main_urls |-> <<>>])
    IN [ret |-> settings, table |-> storage_save_settings(table, settings)]

-----------------------------------------------------------------------------
(* Interactive driver (tests/interactive/interactive_query_test.py).  typed *)
(* is the line input() returns.                                            *)

\* get_input: exit is TRUE when sys.exit(0) is called, value is the string
\* returned otherwise.
get_input(typed, default) ==
    LET user_input == Strip(typed)
    IN IF LowerText(user_input) \in {"quit", "exit"}
       THEN [exit |-> TRUE, value |-> ""]
       ELSE [exit |-> FALSE, value |-> IF user_input # "" THEN user_input ELSE default]

\* The list `required`: the entries of missing_components other than
\* "temporal_context" (the entries are the labels of MissingLabel, which
\* are pairwise distinct, so the `seen` set removes nothing).
Required(missing) ==
    LET Keep(comp) == comp # "temporal_context"
    IN SelectSeq(missing, Keep)

\* missing_components of the validation block, [] without one.
MissingOf(components) ==
    IF "validation" \in DOMAIN components
    THEN components["validation"].missing_components
    ELSE <<>>

AsksUser_AnyValidation(attempt, components) ==
    attempt = 1 /\ "validation" \in DOMAIN components

\* The conditions under which analyze_user_query prompts the user and
\* recurses with attempt=2 instead of going on to enrichment.
AsksUser(attempt, components) ==
    /\ attempt = 1
    /\ "validation" \in DOMAIN components
    /\ MissingOf(components) # <<>>
    /\ Required(MissingOf(components)) # <<>>

-----------------------------------------------------------------------------
(* Inputs *)

Words == {"shoes", "2024", "next", "season", "Europe"}

Queries == UNION {[1..n -> Words] : n \in 0..MaxQueryLen}

PreviousFocus == {<<>>, <<"boots">>}

Attempts == 1..MaxAttempt

\* What the service may answer for each requested component: the key left
\* out, an empty string, or a value (in or out of the requested enum).
AnalysisDicts ==
    {FromOptions([focus_term |-> f, objective |-> o, scope |-> s, unmatched_terms |-> u]) :
        f \in {<<>>, <<"">>, <<"Running Shoes">>},
        o \in {<<>>, <<"Trends">>, <<"preferences">>},
        s \in {<<>>, <<"Sustainability">>, <<"design">>},
        u \in {<<>>, << <<>> >>, << <<"asap">> >>}}

AnalysisReplies == {Ok(d) : d \in AnalysisDicts} \cup {ServiceError, Unparsable}

ValidatorVerdicts ==
    {Ok([is_valid |-> TRUE, suggestion |-> ""]),
     Ok([is_valid |-> FALSE, suggestion |-> "trends"]),
     ServiceError}

\* Every kind of answer to a validation prompt, malformed ones included.
ValidatorReplies ==
    ValidatorVerdicts
      \cup {Ok([is_valid |-> FALSE]), Ok([suggestion |-> "trends"]), Ok(EmptyDict), Unparsable}

ValidatedValues == {"Trends", "preferences", "design", "US"}

\* The queries and answers the end-to-end runs are explored on.
PipelineQueries ==
    {<<>>, <<"shoes">>, <<"shoes", "next", "season">>, <<"shoes", "Europe", "2024">>,
     <<"shoes", "global", "Fall">>}

PipelineReplies ==
    {Ok(FromOptions([focus_term |-> f, objective |-> o, scope |-> s, unmatched_terms |-> u])) :
        f \in {<<>>, <<"Running Shoes">>},
        o \in {<<>>, <<"Trends">>, <<"preferences">>},
        s \in {<<>>, <<"Sustainability">>},
        u \in {<< <<>> >>, << <<"asap">> >>}}
      \cup {ServiceError}

\* Component sets as the interactive drivers complete them from what the
\* user types (tests/interactive/interactive_query_test2.py, lines 45-97).
SuppliedComponents ==
    {FromOptions([focus_term |-> <<"shoes">>, objective |-> o, temporal_context |-> t,
                  geographical_context |-> g, scope |-> s]) :
        o \in {<<"Trends">>, <<"preferences">>},
        t \in {<<"Next Season">>, <<"past season">>, <<"Q1 2024">>},
        g \in {<<"Global">>, <<"US">>, <<"Europe">>},
        s \in {<<>>, <<"design">>}}

Years == {2025, 2026}

Clock == [year : Years, month : 1..12]

CategoryReplies == {Ok([category |-> "Footwear"]), Ok(EmptyDict), ServiceError, Unparsable}

EnrichReplies ==
    {Ok([objective |-> <<"tendency">>, focus |-> <<"sneakers", "trainers">>, scope |-> <<>>]),
     Ok([focus |-> <<"sneakers">>]),
     ServiceError, Unparsable}

SemanticReplies ==
    {Ok([queries |-> <<"What are the trends for shoes?", "How is the market evolving?">>]),
     Ok(EmptyDict), ServiceError, Unparsable}

\* dict.update: d extended and overridden by e.
Merge(d, e) == [k \in (DOMAIN d) \cup (DOMAIN e) |-> IF k \in DOMAIN e THEN e[k] ELSE d[k]]

\* What the service may answer for the two context fields of the prompt.
ContextGuesses ==
    {FromOptions([temporal_context |-> t, geographical_context |-> g]) :
        t \in {<<>>, <<"Q1 2024">>}, g \in {<<>>, <<"US">>}}

\* The rest of the analysis in the runs that compare two context guesses.
GuessedAnalyses ==
    {FromOptions([focus_term |-> f, scope |-> s, unmatched_terms |-> u]) :
        f \in {<<>>, <<"Running Shoes">>},
        s \in {<<>>, <<"Sustainability">>},
        u \in {<< <<>> >>, << <<"asap">> >>}}

\* The words a typed time frame is made of.
TemporalWords ==
    {"Fall", "winter", "2024", "1999", "next", "upcoming", "season", "Future", "q1", "soon"}

\* The time frames validate_temporal is applied to: up to MaxTemporalWords
\* words separated by single blanks, the empty string included.
TemporalInputs ==
    {JoinSpace(w) : w \in UNION {[1..n -> TemporalWords] : n \in 0..MaxTemporalWords}}

\* What the two search agents may find.
KeywordHits ==
    {[url |-> "a", title |-> "keyword"],
     [url |-> "b", title |-> "keyword", score |-> 1],
     [url |-> "a", title |-> "keyword", score |-> 2]}

SemanticHits ==
    {[url |-> "a", title |-> "semantic", score |-> -1],
     [url |-> "b", title |-> "semantic"],
     [url |-> "c", title |-> "semantic", score |-> 1]}

\* The lists of up to MaxResults hits.
HitLists(hits) == UNION {[1..n -> hits] : n \in 0..MaxResults}

\* What search_func returns when it succeeds.
SearchResults(t) ==
    {[results |-> l] : l \in HitLists(IF t = "keyword" THEN KeywordHits ELSE SemanticHits)}

\* UpdateSettingsRequest objects, as the dict of the fields that were set.
UpdateRequests ==
    {FromOptions([name |-> n, business_name |-> b, target_countries |-> t,
                  competitors |-> c]) :
        n \in {<<>>, <<"John">>},
        b \in {<<>>, <<"Tech Store">>},
        t \in {<<>>, << <<"USA", "Canada">> >>, << <<>> >>},
        c \in {<<>>, << <<"CompA">> >>}}

\* Words of several temporal patterns, of equal and of different lengths.
ScanWords == {"2024", "fall", "next", "season", "september", "quarterly", "shoes"}

\* The queries the temporal scan is explored on.
ScanQueries == UNION {[1..n -> ScanWords] : n \in 0..MaxScanWords}

ScanReplies == {Ok([focus_term |-> "Running Shoes"])}

\* The queries typed into the interactive driver.
DriverQueries == {<<>>, <<"shoes">>, <<"shoes", "Europe", "2024">>}

DriverReplies ==
    {Ok(FromOptions([focus_term |-> f, objective |-> o, scope |-> s, unmatched_terms |-> u])) :
        f \in {<<>>, <<"Running Shoes">>},
        o \in {<<>>, <<"Trends">>},
        s \in {<<>>, <<"Sustainability">>},
        u \in {<< <<>> >>, << <<"asap">> >>}}
      \cup {ServiceError}

DriverVerdicts == {Ok([is_valid |-> TRUE, suggestion |-> ""]), ServiceError}

\* The lines typed at the prompt for the missing details.
TypedLines == {"", "  ", "Europe", "trends next season ", "quit", " EXIT", "exit now"}

DriverClock == {[year |-> 2025, month |-> 11]}

\* Stands for the answer to a call that is not made.
NoReply == [kind |-> "none", json |-> EmptyDict]

RepliesIf(called, replies) == IF called THEN replies ELSE {NoReply}

-----------------------------------------------------------------------------
(* Operations.  op is the operation last executed, args its inputs (the    *)
(* service's answers included), ret its return value and calls the         *)
(* text-completion calls it issued.                                        *)

\* The interactive driver before a query is typed: analyzed lists the
\* attempt numbers analyze_query_terms was called with, enriched the
\* component sets handed to enrich_query_data, missing the
\* missing_components of the first result and typed the lines read at the
\* prompt.
IdleDriver ==
    [pc |-> "idle", query |-> <<>>, components |-> EmptyDict,
     analyzed |-> <<>>, enriched |-> <<>>, missing |-> <<>>, typed |-> <<>>]

Users == {"u1", "u2"}

\* The admin_settings table: per user_id, <<>> (no row) or <<settings>>.
EmptyTable == [u \in Users |-> <<>>]

Init ==
    /\ op = "init"
    /\ args = EmptyDict
    /\ ret = EmptyDict
    /\ calls = <<>>
    /\ search = [t \in SearchTypes |-> IdleBranch]
    /\ driver = IdleDriver
    /\ store = EmptyTable

Analyze(queries, previous, replies, verdicts) ==
    /\ op = "init"
    /\ \E query \in queries, attempt \in Attempts, previous_focus \in previous,
          reply \in replies :
         \E objReply \in RepliesIf(HasStr(reply.json, "objective"), verdicts),
            scopeReply \in RepliesIf(HasStr(reply.json, "scope"), verdicts) :
           LET r == analyze_query_terms(query, attempt, previous_focus,
                                        reply, objReply, scopeReply)
           IN /\ op' = "analyze_query_terms"
              /\ args' = [query |-> query, attempt |-> attempt,
                          previous_focus |-> previous_focus, reply |-> reply,
                          objReply |-> objReply, scopeReply |-> scopeReply]
              /\ ret' = r.ret
              /\ calls' = r.calls
              /\ UNCHANGED others

\* A single call of the extractor, on every query up to MaxQueryLen words.
AnalyzeQueryTerms == Analyze(Queries, PreviousFocus, AnalysisReplies, ValidatorVerdicts)

\* The extractor as the first stage of an end-to-end run.
PipelineAnalyze == Analyze(PipelineQueries, {<<>>}, PipelineReplies, ValidatorVerdicts)

Enrich(components) ==
    \E now \in Clock, catReply \in CategoryReplies, reply \in EnrichReplies :
      LET r == enrich_query_data(components, now, catReply, reply)
      IN /\ op' = "enrich_query_data"
         /\ args' = [query_components |-> components, now |-> now,
                     catReply |-> catReply, reply |-> reply]
         /\ ret' = r.ret
         /\ calls' = r.calls
         /\ UNCHANGED others

\* process_query_with_details: the extractor's result goes to enrichment.
EnrichQueryData ==
    /\ op = "analyze_query_terms"
    /\ Enrich(ret)

\* Enrichment of a component set the driver completed from user input.
EnrichSupplied ==
    /\ op = "init"
    /\ \E components \in SuppliedComponents : Enrich(components)

GenerateSearchQueries ==
    /\ op = "enrich_query_data"
    /\ \E reply \in SemanticReplies :
         LET r == generate_search_queries(ret, reply)
         IN /\ op' = "generate_search_queries"
            /\ args' = [enriched_data |-> ret, reply |-> reply]
            /\ ret' = r.ret
            /\ calls' = r.calls
            /\ UNCHANGED others

Validate(name) ==
    /\ op = "init"
    /\ \E value \in ValidatedValues, reply \in ValidatorReplies :
         LET r == CASE name = "validate_objective" -> validate_objective(value, reply)
                    [] name = "validate_geographical" -> validate_geographical(value, reply)
                    [] name = "validate_scope" -> validate_scope(value, reply)
         IN /\ op' = name
            /\ args' = [value |-> value, reply |-> reply]
            /\ ret' = r.ret
            /\ calls' = r.calls
            /\ UNCHANGED others

ValidateObjective == Validate("validate_objective")

ValidateGeographical == Validate("validate_geographical")

ValidateScope == Validate("validate_scope")

Next ==
    \/ PipelineAnalyze
    \/ EnrichQueryData
    \/ EnrichSupplied
    \/ GenerateSearchQueries
    \/ ValidateObjective
    \/ ValidateGeographical
    \/ ValidateScope

Spec == Init /\ [][Next]_vars

\* Two calls of the extractor on the same query, attempt and previous focus
\* whose analysis replies differ at most in temporal_context and
\* geographical_context.
AnalyzePair ==
    /\ op = "init"
    /\ \E query \in Queries, attempt \in Attempts, previous_focus \in PreviousFocus,
          analysis \in GuessedAnalyses, guess1 \in ContextGuesses, guess2 \in ContextGuesses :
         \E scopeReply \in RepliesIf(HasStr(analysis, "scope"), {Ok([is_valid |-> TRUE])}) :
           LET reply1 == Ok(Merge(analysis, guess1))
               reply2 == Ok(Merge(analysis, guess2))
               r1 == analyze_query_terms(query, attempt, previous_focus,
                                         reply1, NoReply, scopeReply)
               r2 == analyze_query_terms(query, attempt, previous_focus,
                                         reply2, NoReply, scopeReply)
           IN /\ op' = "analyze_pair"
              /\ args' = [query |-> query, attempt |-> attempt,
                          previous_focus |-> previous_focus,
                          reply1 |-> reply1, reply2 |-> reply2, scopeReply |-> scopeReply]
              /\ ret' = <<r1.ret, r2.ret>>
              /\ calls' = r1.calls \o r2.calls
              /\ UNCHANGED others

NextOverride == AnalyzePair

SpecOverride == Init /\ [][NextOverride]_vars

ValidateTemporal ==
    /\ op = "init"
    /\ \E temporal \in TemporalInputs, now \in Clock :
         LET r == validate_temporal(temporal, now)
         IN /\ op' = "validate_temporal"
            /\ args' = [temporal |-> temporal, now |-> now]
            /\ ret' = r.ret
            /\ calls' = r.calls
            /\ UNCHANGED others

\* An accepted time frame is validated again, at the same date.
RevalidateTemporal ==
    /\ op = "validate_temporal"
    /\ ret[1] = TRUE
    /\ LET r == validate_temporal(ret[2], args.now)
       IN /\ op' = "revalidate_temporal"
          /\ args' = [temporal |-> ret[2], now |-> args.now, first |-> args.temporal]
          /\ ret' = r.ret
          /\ calls' = r.calls
          /\ UNCHANGED others

\* get_upcoming_season() called in a month of the year.
GetUpcomingSeason ==
    /\ op = "init"
    /\ \E month \in 1..12 :
         /\ op' = "get_upcoming_season"
         /\ args' = [start |-> month, month |-> month, applied |-> 1]
         /\ ret' = get_upcoming_season(month)
         /\ calls' = <<>>
         /\ UNCHANGED others

\* Time has moved into the season last returned and get_upcoming_season()
\* is called again.
GetUpcomingSeasonAgain ==
    /\ op = "get_upcoming_season"
    /\ args.applied < MaxApplications
    /\ \E month \in 1..12 :
         /\ get_current_season(month) = ret
         /\ op' = op
         /\ args' = [start |-> args.start, month |-> month, applied |-> args.applied + 1]
         /\ ret' = get_upcoming_season(month)
         /\ calls' = <<>>
         /\ UNCHANGED others

NextTemporal ==
    \/ ValidateTemporal
    \/ RevalidateTemporal
    \/ GetUpcomingSeason
    \/ GetUpcomingSeasonAgain

SpecTemporal == Init /\ [][NextTemporal]_vars

\* process_query up to the creation of the two search tasks: the query
\* agent runs (and may raise), then both _execute_search coroutines start.
StartSearches ==
    /\ op = "init"
    /\ \E query_ok \in BOOLEAN :
         /\ args' = [query_ok |-> query_ok]
         /\ IF query_ok
            THEN /\ op' = "process_query"
                 /\ ret' = ret
                 /\ search' = [t \in SearchTypes |-> [IdleBranch EXCEPT !.pc = "call"]]
            ELSE /\ op' = "process_query_done"
                 /\ ret' = [raised |-> "WorkflowError"]
                 /\ search' = search
    /\ UNCHANGED <<calls, driver, store>>

\* A branch invokes search_func; the invocation succeeds or raises.
InvokeSearch ==
    /\ op = "process_query"
    /\ \E t \in SearchTypes :
         /\ search[t].pc = "call"
         /\ \E outcome \in {"ok", "error"} :
              \E result \in (IF outcome = "ok" THEN SearchResults(t) ELSE {<<>>}) :
                search' = [search EXCEPT ![t] = ExecuteSearchStep(@, outcome, result)]
    /\ UNCHANGED <<op, args, ret, calls, driver, store>>

\* The sleep of a branch ends and its loop goes to the next attempt.
WakeSearch ==
    /\ op = "process_query"
    /\ \E t \in SearchTypes :
         /\ search[t].pc = "sleep"
         /\ search' = [search EXCEPT ![t].pc = "call"]
    /\ UNCHANGED <<op, args, ret, calls, driver, store>>

\* process_query after the gather: an exception among the two results is
\* re-raised and wrapped in a WorkflowError, otherwise the results are
\* combined and returned.
Gather ==
    /\ op = "process_query"
    /\ GatherReady(search)
    /\ op' = "process_query_done"
    /\ ret' = IF \E t \in SearchTypes : search[t].pc # "returned"
              THEN [raised |-> "WorkflowError"]
              ELSE [keyword_results |-> search["keyword"].result,
                    semantic_results |-> search["semantic"].result,
                    combined_results |->
                      _combine_results(GetOr(search["keyword"].result, "results", <<>>),
                                       GetOr(search["semantic"].result, "results", <<>>))]
    /\ UNCHANGED <<args, calls, search, driver, store>>

NextWorkflow ==
    \/ StartSearches
    \/ InvokeSearch
    \/ WakeSearch
    \/ Gather

SpecWorkflow == Init /\ [][NextWorkflow]_vars

\* The operations of AdminAPI; each call may come from any instance.
AdminCall(name, user_id, request, result, table) ==
    /\ op' = name
    /\ args' = [user_id |-> user_id, updates |-> request]
    /\ ret' = result
    /\ store' = table
    /\ UNCHANGED <<calls, search, driver>>

GetSettings ==
    \E user_id \in Users :
      AdminCall("get_settings", user_id, EmptyDict,
                storage_get_settings(store, user_id), store)

UpdateSettings ==
    \E user_id \in Users, updates \in UpdateRequests :
      LET r == update_settings(store, user_id, updates)
      IN AdminCall("update_settings", user_id, updates, r.ret, r.table)

ResetSettings ==
    \E user_id \in Users :
      LET r == reset_settings(store, user_id)
      IN AdminCall("reset_settings", user_id, EmptyDict, r.ret, r.table)

DeleteUser ==
    \E user_id \in Users :
      AdminCall("delete_user", user_id, EmptyDict, EmptyDict,
                storage_delete_settings(store, user_id))

NextAdmin ==
    \/ GetSettings
    \/ UpdateSettings
    \/ ResetSettings
    \/ DeleteUser

SpecAdmin == Init /\ [][NextAdmin]_vars

\* A call of the extractor on a query made of time expressions.
AnalyzeTimeExpressions == Analyze(ScanQueries, {<<>>}, ScanReplies, ValidatorVerdicts)

NextScan == AnalyzeTimeExpressions

SpecScan == Init /\ [][NextScan]_vars

\* analyze_user_query up to its prompt, its recursive call or its call of
\* enrich_query_data: attempt is 1 for a query just typed and 2 in the
\* recursive call.
AnalyzeUserQuery ==
    /\ driver.pc \in {"idle", "again"}
    /\ \E query \in (IF driver.pc = "idle" THEN DriverQueries ELSE {driver.query}),
          reply \in DriverReplies :
         \E objReply \in RepliesIf(HasStr(reply.json, "objective"), DriverVerdicts),
            scopeReply \in RepliesIf(HasStr(reply.json, "scope"), DriverVerdicts) :
           LET attempt == IF driver.pc = "idle" THEN 1 ELSE 2
               r == analyze_query_terms(query, attempt, <<>>, reply, objReply, scopeReply)
               components == IF IsFalsy(r.ret) THEN EmptyDict ELSE r.ret
           IN /\ driver' = [driver EXCEPT
                              !.pc = IF AsksUser(attempt, components)
                                     THEN "input" ELSE "enrich",
                              !.query = query,
                              !.components = components,
                              !.analyzed = @ \o <<attempt>>,
                              !.missing = IF attempt = 1 THEN MissingOf(components) ELSE @]
              /\ op' = "analyze_user_query"
              /\ args' = [query |-> query, attempt |-> attempt]
              /\ ret' = components
              /\ calls' = calls \o r.calls
              /\ UNCHANGED <<search, store>>

\* The prompt for the missing details and what follows the line read:
\* sys.exit(0), or the recursive call on the query extended by the line.
GetInput ==
    /\ driver.pc = "input"
    /\ \E typed \in TypedLines :
         LET additional_input == get_input(typed, "")
         IN /\ driver' = [driver EXCEPT
                            !.pc = IF additional_input.exit THEN "exited" ELSE "again",
                            !.query = IF ~ additional_input.exit
                                         /\ additional_input.value # ""
                                      THEN @ \o Split(additional_input.value)
                                      ELSE @,
                            !.typed = @ \o <<typed>>]
            /\ op' = "get_input"
            /\ args' = [typed |-> typed]
            /\ ret' = additional_input
            /\ calls' = calls
            /\ UNCHANGED <<search, store>>

\* The call of enrich_query_data and the return of (components, enriched).
EnrichUserQuery ==
    /\ driver.pc = "enrich"
    /\ \E now \in DriverClock, catReply \in CategoryReplies, reply \in EnrichReplies :
         LET r == enrich_query_data(driver.components, now, catReply, reply)
         IN /\ driver' = [driver EXCEPT !.pc = "done",
                                        !.enriched = @ \o <<driver.components>>]
            /\ op' = "analyze_user_query"
            /\ args' = [query |-> driver.query, now |-> now]
            /\ ret' = [components |-> driver.components, enriched |-> r.ret]
            /\ calls' = calls \o r.calls
            /\ UNCHANGED <<search, store>>

NextDriver ==
    \/ AnalyzeUserQuery
    \/ GetInput
    \/ EnrichUserQuery

SpecDriver == Init /\ [][NextDriver]_vars

NextExtract == AnalyzeQueryTerms

SpecExtract == Init /\ [][NextExtract]_vars

-----------------------------------------------------------------------------
(* Properties of the Component Extractor (checked under SpecExtract) *)

IsAnalyze == op = "analyze_query_terms"

\* The extractor ran and its analysis call returned a parsed object.
AnalysisOk == IsAnalyze /\ args.reply.kind = "ok"

Analysis == args.reply.json

RequiredComponents ==
    {"focus_term", "objective", "scope", "temporal_context", "geographical_context"}

\* The answer to a validation prompt says is_valid = false.
Rejected(reply) ==
    reply.kind = "ok" /\ "is_valid" \in DOMAIN reply.json /\ ~ reply.json["is_valid"]

ReportedUnmatched ==
    IF "unmatched_terms" \in DOMAIN Analysis THEN Analysis["unmatched_terms"] ELSE <<>>

\* The labels of the components absent from ret, in the fixed order.
AbsentLabels ==
    LET labelled ==
          << <<"focus_term", "product or topic">>,
             <<"objective", "research objective (trends/demand/performance/comparison)">>,
             <<"scope", "analysis areas (suggested: functionality, aesthetic_appeal, sustainability, technology_integration, health_wellness)">>,
             <<"temporal_context", "time reference (e.g., current, next season)">>,
             <<"geographical_context", "location reference (e.g., global, Europe)">> >>
        absent == SelectSeq(labelled, LAMBDA p : p[1] \notin DOMAIN ret)
    IN [i \in 1..Len(absent) |-> absent[i][2]]

\* C1: on attempt 1 with a successful analysis call, the result carries a
\* validation block exactly when a required component is absent from it or
\* the service reported unmatched terms; the block holds attempt 1, the
\* reported unmatched terms and the labels of the absent components in the
\* order product, objective, analysis areas, time, location; and objective,
\* temporal and geographical context are present only when extracted, never
\* defaulted.
C1_FirstAttemptValidation ==
    (AnalysisOk /\ args.attempt = 1) =>
      LET q == EffectiveQuery(args.query, args.previous_focus)
      IN /\ ("validation" \in DOMAIN ret)
              <=> ((\E k \in RequiredComponents : k \notin DOMAIN ret)
                   \/ ReportedUnmatched # <<>>)
         /\ "validation" \in DOMAIN ret =>
              /\ ret["validation"].attempt = 1
              /\ ret["validation"].unmatched_terms = ReportedUnmatched
              /\ ret["validation"].missing_components = AbsentLabels
         /\ "objective" \in DOMAIN ret =>
              /\ HasStr(Analysis, "objective")
              /\ ret["objective"] = Lower(Analysis["objective"])
         /\ "temporal_context" \in DOMAIN ret =>
              TemporalContextOf(q) = <<ret["temporal_context"]>>
         /\ "geographical_context" \in DOMAIN ret =>
              LocationContextOf(q) = <<ret["geographical_context"]>>

\* Scenario B: only the focus term is found on attempt 1.
C1_Witness ==
    /\ AnalysisOk /\ args.attempt = 1
    /\ DOMAIN ret = {"focus_term", "validation"}
    /\ Len(ret["validation"].missing_components) = 4
    /\ ret["validation"].unmatched_terms = <<>>

\* C2: on attempt > 1 with a successful analysis call, the result holds
\* objective, geographical_context and temporal_context, each the extracted
\* value if there is one and otherwise "trends", "global", "current"; scope
\* is present only if extracted; there is no validation block.
C2_LaterAttemptDefaults ==
    (AnalysisOk /\ args.attempt > 1) =>
      LET q == EffectiveQuery(args.query, args.previous_focus)
          t == TemporalContextOf(q)
          g == LocationContextOf(q)
      IN /\ {"objective", "geographical_context", "temporal_context"} \subseteq DOMAIN ret
         /\ ~ HasStr(Analysis, "objective") => ret["objective"] = "trends"
         /\ HasStr(Analysis, "objective") =>
              /\ ret["objective"] \in {Lower(Analysis["objective"]), "trends"}
              /\ ~ Rejected(args.objReply) => ret["objective"] = Lower(Analysis["objective"])
         /\ ret["geographical_context"] = (IF g # <<>> THEN g[1] ELSE "global")
         /\ ret["temporal_context"] = (IF t # <<>> THEN t[1] ELSE "current")
         /\ "scope" \in DOMAIN ret =>
              /\ HasStr(Analysis, "scope")
              /\ ret["scope"] = Lower(Analysis["scope"])
         /\ "validation" \notin DOMAIN ret

\* A later attempt where nothing but the focus term was extracted.
C2_Witness ==
    /\ AnalysisOk /\ args.attempt > 1
    /\ ~ HasStr(Analysis, "objective") /\ ~ HasStr(Analysis, "scope")
    /\ DOMAIN ret = {"focus_term", "objective", "geographical_context", "temporal_context"}
    /\ ret["objective"] = "trends"
    /\ ret["geographical_context"] = "global"
    /\ ret["temporal_context"] = "current"

\* C3: an objective or scope value the Validator rejected (is_valid = false)
\* never appears in the returned component set.
C3_OnlyAcceptedValuesKept ==
    AnalysisOk =>
      /\ (HasStr(Analysis, "objective") /\ Rejected(args.objReply)) =>
           \/ "objective" \notin DOMAIN ret
           \/ (args.attempt > 1 /\ ret["objective"] = "trends")
      /\ (HasStr(Analysis, "scope") /\ Rejected(args.scopeReply)) =>
           "scope" \notin DOMAIN ret

\* C4: when the service returns no focus term the extractor returns the
\* failure sentinel (an empty result), whatever the attempt number.
C4_NoFocusGivesFailureSentinel ==
    (IsAnalyze /\ ~ HasStr(Analysis, "focus_term")) => DOMAIN ret = {}

ObjectiveEnum == {"trends", "demand", "performance", "comparison"}

ScopeEnum ==
    {"functionality", "sustainability", "technology", "health", "price", "culture"}
      \cup {STANDARD_SCOPE_AREAS[i] : i \in DOMAIN STANDARD_SCOPE_AREAS}

\* C5: in every returned component set, objective and scope, when present,
\* are members of their enums.
C5_EnumMembership ==
    IsAnalyze =>
      /\ "objective" \in DOMAIN ret => ret["objective"] \in ObjectiveEnum
      /\ "scope" \in DOMAIN ret => ret["scope"] \in ScopeEnum

-----------------------------------------------------------------------------
(* Properties of enrichment, generation and validation (checked under Spec) *)

IsEnrich == op = "enrich_query_data"

IsGenerate == op = "generate_search_queries"

Failed(reply) == reply.kind # "ok"

\* C6: enrichment of an empty component set, or of one whose focus_term is
\* missing or empty, returns None without any text-completion call; and a
\* keyword query is produced only from an enriched set whose original
\* component set has a focus term.
C6_EnrichNeedsFocus ==
    /\ (IsEnrich /\ ~ HasStr(args.query_components, "focus_term")) =>
         (ret = NoneVal /\ calls = <<>>)
    /\ (IsGenerate /\ ret.keyword_queries # <<>>) =>
         /\ args.enriched_data # NoneVal
         /\ HasStr(args.enriched_data["original"], "focus_term")

\* The extractor found no focus term on attempt 1 and enrichment refused.
C6_Witness ==
    /\ IsEnrich
    /\ "validation" \in DOMAIN args.query_components
    /\ "focus_term" \notin DOMAIN args.query_components
    /\ ret = NoneVal
    /\ calls = <<>>

\* generate_search_queries ran on an enriched input with a focus term and
\* its semantic-query call succeeded.
GeneratedOk ==
    /\ IsGenerate
    /\ args.enriched_data # NoneVal
    /\ HasStr(args.enriched_data["original"], "focus_term")
    /\ ~ Failed(args.reply)

\* The keyword query strings the contract lists, in order; geoIncluded says
\* whether the geographical context counts as a location.
ContractQueries(geoIncluded) ==
    LET original == args.enriched_data["original"]
        focus == original["focus_term"]
        objective == GetOr(original, "objective", "trends")
        geo == GetOr(original, "geographical_context", "global")
        terms == args.enriched_data["metadata"].temporal_terms
        first == IF terms # <<>> THEN terms[1] ELSE ""
        scope == GetOr(original, "scope", "")
        base == focus \o " " \o objective
        full == base \o (IF geoIncluded THEN " " \o geo ELSE "")
                     \o (IF first # "" THEN " " \o first ELSE "")
                     \o (IF scope # "" THEN " " \o scope ELSE "")
    IN <<full>>
       \o (IF base # full THEN <<base>> ELSE <<>>)
       \o (IF geoIncluded THEN <<base \o " " \o geo>> ELSE <<>>)
       \o (IF first # "" THEN <<base \o " " \o first>> ELSE <<>>)
       \o (IF scope # "" THEN <<base \o " " \o scope>> ELSE <<>>)

\* The returned keyword queries are exactly `expected`, each with the
\* metadata {location_terms, category, temporal} of the enriched input.
KeywordQueriesAre(expected) ==
    LET metadata == args.enriched_data["metadata"]
    IN /\ Len(ret.keyword_queries) = Len(expected)
       /\ \A i \in 1..Len(expected) :
            /\ ret.keyword_queries[i].query = expected[i]
            /\ ret.keyword_queries[i].metadata =
                 [location |-> metadata.location_terms,
                  category |-> metadata.category,
                  temporal |-> metadata.temporal]

GeoContext == GetOr(args.enriched_data["original"], "geographical_context", "global")

\* C7 as stated: the geographical context is left out of the full query and
\* of the location query exactly when it is the string "global".
C7_AsStated == GeneratedOk => KeywordQueriesAre(ContractQueries(GeoContext # "global"))

\* C7: the keyword queries are the full query, the base query if it differs,
\* the location query, the temporal query and the scope query, in this order
\* and with the same metadata, where the geographical context counts as a
\* location iff it is non-empty and is not "global" compared
\* case-insensitively.
C7_KeywordQueryOrder ==
    GeneratedOk =>
      KeywordQueriesAre(ContractQueries(GeoContext # "" /\ Lower(GeoContext) # "global"))

\* All five queries are produced.
C7_Witness ==
    /\ GeneratedOk
    /\ Len(ret.keyword_queries) = 5
    /\ Lower(GeoContext) # "global"

\* A user-typed "Global" is left out of the queries.
C7_WitnessGlobal ==
    /\ GeneratedOk
    /\ GeoContext = "Global"
    /\ Len(ret.keyword_queries) >= 2

\* C8: when the semantic-query call fails, semantic_queries is empty and
\* keyword_queries is the list returned when the call succeeds.
C8_KeywordQueriesSurviveFailure ==
    (IsGenerate /\ ~ IsFalsy(args.enriched_data) /\ Failed(args.reply)) =>
      /\ ret.semantic_queries = <<>>
      /\ ret.keyword_queries =
           generate_search_queries(args.enriched_data, Ok(EmptyDict)).ret.keyword_queries

\* C9: with a focus term, a failed category call gives category "general"
\* and enrichment goes on; a failed synonym call still gives an EnrichedData
\* (with empty term lists), not None.
C9_SubcallFailureDoesNotAbort ==
    (IsEnrich /\ HasStr(args.query_components, "focus_term")) =>
      /\ Failed(args.catReply) =>
           /\ calls = <<"get_product_category", "enrich_query_data">>
           /\ ret # NoneVal => ret["metadata"].category = "general"
      /\ Failed(args.reply) =>
           IF ret = NoneVal THEN FALSE
           ELSE \A k \in DOMAIN ret["enriched"] : ret["enriched"][k] = <<>>

\* enrich_query_data returned an EnrichedData.
Enriched == IsEnrich /\ ret # NoneVal

\* query_components.get("geographical_context", "global")
SuppliedGeo == GetOr(args.query_components, "geographical_context", "global")

\* C12: when the geographical context is absent or is "global" in any
\* letter case, metadata.location_terms of the EnrichedData is exactly
\* ["Europe", "North America", "Asia"]; and "global" is never one of the
\* location terms.
C12_GlobalExpandsToMarkets ==
    Enriched =>
      /\ Lower(SuppliedGeo) = "global" =>
           ret["metadata"].location_terms = <<"Europe", "North America", "Asia">>
      /\ \A i \in 1..Len(ret["metadata"].location_terms) :
           ret["metadata"].location_terms[i] # "global"

\* A user-typed "Global" was expanded to the three markets.
C12_Witness ==
    /\ Enriched
    /\ "geographical_context" \in DOMAIN args.query_components
    /\ args.query_components["geographical_context"] = "Global"
    /\ ret["metadata"].location_terms = <<"Europe", "North America", "Asia">>

\* C13: when the geographical context is a string other than "global"
\* (case-insensitive), metadata.location_terms is the one-element list
\* holding that string.
C13_OtherLocationPassesThrough ==
    (Enriched /\ Lower(SuppliedGeo) # "global") =>
      ret["metadata"].location_terms = <<SuppliedGeo>>

\* C14: every EnrichedData has metadata.temporal.duration = "12 months".
C14_DurationAlwaysTwelveMonths ==
    Enriched =>
      /\ "duration" \in DOMAIN ret["metadata"].temporal
      /\ ret["metadata"].temporal["duration"] = "12 months"

\* The first entry of the objective synonym table, per objective.
FirstSynonym ==
    [trends |-> "pattern", demand |-> "consumption", performance |-> "results",
     comparison |-> "analysis"]

\* query_components.get("objective", "trends")
SuppliedObjective == GetOr(args.query_components, "objective", "trends")

\* C15: when the lower-cased objective is a key of the synonym table,
\* enriched.objective is the one-element list holding the table's first
\* entry for it, whatever the service answered; otherwise the service's
\* answer is returned unchanged.
C15_ObjectiveSynonymFromTable ==
    Enriched =>
      IF Lower(SuppliedObjective) \in DOMAIN FirstSynonym
      THEN /\ "objective" \in DOMAIN ret["enriched"]
           /\ ret["enriched"]["objective"] = <<FirstSynonym[Lower(SuppliedObjective)]>>
           /\ \A k \in (DOMAIN args.reply.json) \ {"objective"} :
                k \in DOMAIN ret["enriched"] /\ ret["enriched"][k] = args.reply.json[k]
      ELSE ret["enriched"] = args.reply.json

\* The objective was typed "Trends", the service answered "tendency", and
\* the table's "pattern" was returned.
C15_Witness ==
    /\ Enriched
    /\ SuppliedObjective = "Trends"
    /\ "objective" \in DOMAIN args.reply.json
    /\ args.reply.json["objective"] = <<"tendency">>
    /\ ret["enriched"]["objective"] = <<"pattern">>

\* C16: generate_search_queries always returns a bundle with the keys
\* keyword_queries and semantic_queries; for a falsy input the bundle is
\* {keyword_queries: [], semantic_queries: []} and no text-completion call
\* is made.
C16_GenerateAlwaysReturnsBundle ==
    IsGenerate =>
      /\ {"keyword_queries", "semantic_queries"} \subseteq DOMAIN ret
      /\ IsFalsy(args.enriched_data) => (ret = EmptyBundle /\ calls = <<>>)

\* Enrichment had returned None and generation answered with the empty
\* bundle, without a call.
C16_Witness ==
    /\ IsGenerate
    /\ args.enriched_data = NoneVal
    /\ ret = EmptyBundle
    /\ calls = <<>>

\* The semantic-query call raised and a bundle was still returned.
C16_WitnessFailure ==
    /\ IsGenerate
    /\ ~ IsFalsy(args.enriched_data)
    /\ Failed(args.reply)
    /\ DOMAIN ret = {"keyword_queries", "semantic_queries"}

IsValidate == op \in {"validate_objective", "validate_geographical", "validate_scope"}

\* C10: the three LLM-backed validators return (true, "") whenever the
\* call fails or its answer cannot be parsed or read.
C10_ValidatorsFailOpen ==
    (IsValidate /\ (Failed(args.reply) \/ "is_valid" \notin DOMAIN args.reply.json)) =>
      ret = <<TRUE, "">>

\* validate_geographical received content that is not JSON.
C10_Witness ==
    /\ op = "validate_geographical"
    /\ args.reply.kind = "unparsable"
    /\ ret = <<TRUE, "">>

-----------------------------------------------------------------------------
(* Precedence of the regex scan over the analysis (checked under           *)
(* SpecOverride)                                                           *)

IsAnalyzePair == op = "analyze_pair"

\* The texts the patterns of a table match in the lowercased effective query.
MatchedTexts(patterns) ==
    LET m == ScanPatterns(patterns,
                          LowerWords(EffectiveQuery(args.query, args.previous_focus)))
    IN {m[i].value : i \in 1..Len(m)}

\* components.get(key), with <<>> for an absent key.
ContextIn(components, key) ==
    IF key \in DOMAIN components THEN <<components[key]>> ELSE <<>>

-----------------------------------------------------------------------------
(* Properties of validate_temporal (checked under SpecTemporal) *)

IsValidateTemporal == op = "validate_temporal"

\* The whitespace-separated tokens of the validated string, lower-cased.
Tokens == Split(LowerText(args.temporal))

NamesSeason ==
    \E i \in 1..Len(Tokens) : Tokens[i] \in {"spring", "summer", "fall", "winter"}

NamesYear ==
    \E i \in 1..Len(Tokens) :
      /\ Len(Tokens[i]) = 4
      /\ \A j \in 1..4 : SubSeq(Tokens[i], j, j) \in Digits

IsRelativePhrase == LowerText(args.temporal) \in {"next season", "upcoming season", "future"}

CurrentYearText == IntToStr(args.now.year)

\* C17: a string that has a season name and a 4-digit year among its
\* whitespace-separated tokens is accepted and returned unchanged.
C17_SeasonWithYearUnchanged ==
    (IsValidateTemporal /\ NamesSeason /\ NamesYear) => ret = <<TRUE, args.temporal>>

\* "Fall 1999" was accepted as it is.
C17_Witness ==
    /\ IsValidateTemporal
    /\ args.temporal = "Fall 1999"
    /\ ret = <<TRUE, "Fall 1999">>

\* The season that follows the season of each month.
SuccessorByMonth ==
    [m \in 1..12 |->
       IF m \in {12, 1, 2} THEN "Spring"
       ELSE IF m \in {3, 4, 5} THEN "Summer"
       ELSE IF m \in {6, 7, 8} THEN "Fall"
       ELSE "Winter"]

\* C18: in every month, "next season", "upcoming season" and "future"
\* resolve to (true, "<S> <current year>") with S the cyclic successor of
\* the month's season in the order Winter, Spring, Summer, Fall.
C18_RelativePhraseResolves ==
    (IsValidateTemporal /\ IsRelativePhrase) =>
      ret = <<TRUE, SuccessorByMonth[args.now.month] \o " " \o CurrentYearText>>

\* "next season", asked in January 2025, gave "Spring 2025".
C18_Witness ==
    /\ IsValidateTemporal
    /\ args.temporal = "next season"
    /\ args.now = [year |-> 2025, month |-> 1]
    /\ ret = <<TRUE, "Spring 2025">>

\* "upcoming season", asked in autumn, wrapped around to Winter.
C18_WitnessWrap ==
    /\ IsValidateTemporal
    /\ args.temporal = "upcoming season"
    /\ args.now.month = 10
    /\ ret = <<TRUE, "Winter " \o CurrentYearText>>

\* What C19 prescribes for a string without a year that is not a relative
\* phrase.
SeasonOnlyOutcome ==
    IF NamesSeason
    THEN ret = <<TRUE, args.temporal \o " " \o CurrentYearText>>
    ELSE ret = <<FALSE,
                 "Please provide a season (Spring, Summer, Fall, Winter) with an optional year">>

\* C19 as stated: every string that is not a relative phrase and has no
\* 4-digit year token is accepted with the current year appended if it has
\* a season name, and rejected with the fixed message otherwise.
C19_AsStated ==
    (IsValidateTemporal /\ ~ IsRelativePhrase /\ ~ NamesYear) => SeasonOnlyOutcome

\* C19: every non-empty string that is not a relative phrase and has no
\* 4-digit year token is accepted with the current year appended if it has
\* a season name, and rejected with the fixed message otherwise; the empty
\* string is accepted as (true, "").
C19_SeasonOnlyOrRejected ==
    /\ (IsValidateTemporal /\ args.temporal # "" /\ ~ IsRelativePhrase /\ ~ NamesYear) =>
         SeasonOnlyOutcome
    /\ (IsValidateTemporal /\ args.temporal = "") => ret = <<TRUE, "">>

\* "next winter" was accepted with the current year appended.
C19_Witness ==
    /\ IsValidateTemporal
    /\ args.temporal = "next winter"
    /\ ret = <<TRUE, "next winter " \o CurrentYearText>>

\* "q1 soon" was rejected.
C19_WitnessRejected ==
    /\ IsValidateTemporal
    /\ args.temporal = "q1 soon"
    /\ ret[1] = FALSE

\* C20: validating an accepted value again, in the same month and year,
\* accepts it and returns it unchanged.
C20_TemporalIdempotent ==
    op = "revalidate_temporal" => ret = <<TRUE, args.temporal>>

\* "Fall" became "Fall <year>", which was then returned as it is.
C20_Witness ==
    /\ op = "revalidate_temporal"
    /\ args.first = "Fall"
    /\ args.temporal = "Fall " \o CurrentYearText
    /\ ret = <<TRUE, args.temporal>>

-----------------------------------------------------------------------------
(* Scenario A of the extractor (checked under SpecExtract) *)

\* C21: on attempt 1, when focus term, objective, geographical context and
\* scope are all extracted, the service reports no unmatched term and the
\* query holds no time expression, the result has no validation block.
C21_NoTimeExpressionNoValidation ==
    (/\ AnalysisOk /\ args.attempt = 1
     /\ {"focus_term", "objective", "geographical_context", "scope"} \subseteq DOMAIN ret
     /\ ReportedUnmatched = <<>>
     /\ TemporalContextOf(EffectiveQuery(args.query, args.previous_focus)) = <<>>)
      => "validation" \notin DOMAIN ret

-----------------------------------------------------------------------------
(* Properties of the research workflow (checked under SpecWorkflow) *)

\* The number of failed invocations of search_func in a branch.
Failures(b) == Cardinality({i \in 1..Len(b.outcomes) : b.outcomes[i].status = "error"})

\* C22: _execute_search invokes the search function at most 3 times; a
\* success is its last invocation and its result is what is returned; it
\* has slept 1 s after the first failure and 2 s after the second and
\* nothing after the third; and it raises exactly when 3 invocations failed.
C22_BoundedRetry ==
    \A t \in SearchTypes :
      LET b == search[t]
          n == Len(b.outcomes)
      IN /\ n <= 3
         /\ \A i \in 1..(n - 1) : b.outcomes[i].status = "error"
         /\ b.pc = "returned" <=> (n >= 1 /\ b.outcomes[n].status = "ok")
         /\ b.pc = "returned" => b.result = b.outcomes[n].result
         /\ b.sleeps = [i \in 1..(IF Failures(b) < 2 THEN Failures(b) ELSE 2) |-> i]
         /\ b.pc = "raised" <=> Failures(b) = 3

\* The keyword search failed twice, slept 1 s and 2 s, and then succeeded.
C22_Witness ==
    /\ search["keyword"].pc = "returned"
    /\ Len(search["keyword"].outcomes) = 3
    /\ search["keyword"].sleeps = <<1, 2>>

ProcessQueryDone == op = "process_query_done" /\ args.query_ok

\* C23: process_query ends only when both search branches have returned
\* or raised, whatever the interleaving (so a branch that fails does not
\* stop the other one); if a branch raised, a WorkflowError is raised and
\* no combined result is returned; results are combined only when both
\* branches returned.
C23_CombineAfterBothBranches ==
    ProcessQueryDone =>
      /\ \A t \in SearchTypes : search[t].pc \in {"returned", "raised"}
      /\ (\E t \in SearchTypes : search[t].pc = "raised") =>
           ret = [raised |-> "WorkflowError"]
      /\ "combined_results" \in DOMAIN ret =>
           \A t \in SearchTypes : search[t].pc = "returned"

\* The keyword branch exhausted its retries while the semantic branch went
\* on to its third invocation and succeeded; a WorkflowError was raised.
C23_Witness ==
    /\ ProcessQueryDone
    /\ search["keyword"].pc = "raised"
    /\ search["semantic"].pc = "returned"
    /\ Len(search["semantic"].outcomes) = 3
    /\ ret = [raised |-> "WorkflowError"]

\* Both branches are in their retry loops at the same time.
C23_WitnessConcurrent ==
    /\ op = "process_query"
    /\ search["keyword"].pc = "sleep"
    /\ search["semantic"].pc = "sleep"

Combined == op = "process_query_done" /\ "combined_results" \in DOMAIN ret

UrlsOf(results) == {results[i]["url"] : i \in 1..Len(results)}

\* C24: in the combined list every URL occurs once, the URLs are those of
\* the keyword and the semantic results together, a URL found by the
\* semantic search is represented by a semantic result, and the scores (0
\* for a result without score) never increase along the list.
C24_CombineResults ==
    Combined =>
      LET c == ret["combined_results"]
          k == ret["keyword_results"]["results"]
          s == ret["semantic_results"]["results"]
          score(x) == IF "score" \in DOMAIN x THEN x["score"] ELSE 0
      IN /\ \A i, j \in 1..Len(c) : c[i]["url"] = c[j]["url"] => i = j
         /\ UrlsOf(c) = UrlsOf(k) \cup UrlsOf(s)
         /\ \A i \in 1..Len(c) :
              IF c[i]["url"] \in UrlsOf(s)
              THEN \E j \in 1..Len(s) : s[j] = c[i]
              ELSE \E j \in 1..Len(k) : k[j] = c[i]
         /\ \A i, j \in 1..Len(c) : i < j => score(c[i]) >= score(c[j])

\* Both searches found URL "a"; the combined list holds the semantic result
\* for it, after a keyword result with a higher score.
C24_Witness ==
    /\ Combined
    /\ Len(ret["combined_results"]) = 2
    /\ ret["combined_results"][1] = [url |-> "b", title |-> "keyword", score |-> 1]
    /\ ret["combined_results"][2] = [url |-> "a", title |-> "semantic", score |-> -1]
    /\ "a" \in UrlsOf(ret["keyword_results"]["results"])

-----------------------------------------------------------------------------
(* Properties of the admin settings (checked under SpecAdmin) *)

SettingNames ==
    {"name", "first_name", "business_name", "target_countries", "competitors", "main_urls"}

\* The value get_settings reports for a setting, as <<value>>; <<>> when
\* the settings it returns do not hold the setting.
Reported(table, user_id, k) ==
    LET settings == storage_get_settings(table, user_id)
    IN IF k \in DOMAIN settings THEN <<settings[k]>> ELSE <<>>

EmptyDefault(k) ==
    IF k \in {"target_countries", "competitors", "main_urls"} THEN <<>> ELSE ""

\* C25: get_settings returns what the table holds and changes nothing;
\* after update_settings every setting named in the update reads back as
\* the value given and every other setting reads back as before; after
\* reset_settings every setting reads back as its empty default.
C25_ReadYourWrites ==
    [][/\ op' = "get_settings" =>
            /\ ret' = storage_get_settings(store, args'.user_id)
            /\ store' = store
       /\ op' = "update_settings" =>
            \A k \in SettingNames :
              IF k \in DOMAIN args'.updates
              THEN Reported(store', args'.user_id, k) = <<args'.updates[k]>>
              ELSE Reported(store', args'.user_id, k) = Reported(store, args'.user_id, k)
       /\ op' = "reset_settings" =>
            \A k \in SettingNames :
              Reported(store', args'.user_id, k) \in {<<>>, <<EmptyDefault(k)>>}]_vars

\* The part of C25 that the declared list fields satisfy.
C25_ListSettingsReadBack ==
    [][op' = "update_settings" =>
         \A k \in {"target_countries", "competitors", "main_urls"} :
           IF k \in DOMAIN args'.updates
           THEN Reported(store', args'.user_id, k) = <<args'.updates[k]>>
           ELSE Reported(store', args'.user_id, k) = Reported(store, args'.user_id, k)]_vars

-----------------------------------------------------------------------------
(* Choice among several temporal matches (checked under SpecScan) *)

\* Every match of a temporal pattern in the lowercased query, by pattern.
TemporalMatches ==
    ScanPatterns(TEMPORAL_PATTERNS, LowerWords(EffectiveQuery(args.query, args.previous_focus)))

\* The place of each pattern in the declared order.
DeclaredAt ==
    [year |-> 1, season |-> 2, relative |-> 3, month |-> 4, period |-> 5]

\* C26: when temporal patterns match the query, temporal_context is a
\* longest matched text, and among the matched texts of that length it is
\* one of the earliest-declared pattern; so "next season" out-ranks a bare
\* season name and a bare "next".
C26_LongestMatchWins ==
    (AnalysisOk /\ TemporalMatches # <<>>) =>
      /\ "temporal_context" \in DOMAIN ret
      /\ \E i \in 1..Len(TemporalMatches) :
           /\ TemporalMatches[i].value = ret["temporal_context"]
           /\ \A j \in 1..Len(TemporalMatches) :
                \/ Len(TemporalMatches[j].value) < Len(TemporalMatches[i].value)
                \/ /\ Len(TemporalMatches[j].value) = Len(TemporalMatches[i].value)
                   /\ DeclaredAt[TemporalMatches[i].type] <= DeclaredAt[TemporalMatches[j].type]

\* "fall next season": the relative phrase out-ranks the season name.
C26_Witness ==
    /\ AnalysisOk
    /\ args.query = <<"fall", "next", "season">>
    /\ ret["temporal_context"] = "next season"

\* "fall 2024": two matches of four characters, the year pattern wins.
C26_WitnessTie ==
    /\ AnalysisOk
    /\ args.query = <<"fall", "2024">>
    /\ ret["temporal_context"] = "2024"

-----------------------------------------------------------------------------
(* The cycle of the seasons (checked under SpecTemporal) *)

\* The season of each month.
SeasonByMonth ==
    [m \in 1..12 |->
       IF m \in {12, 1, 2} THEN "Winter"
       ELSE IF m \in {3, 4, 5} THEN "Spring"
       ELSE IF m \in {6, 7, 8} THEN "Summer"
       ELSE "Fall"]

\* C27: get_upcoming_season gives a season in every month of the year, and
\* applying it repeatedly, starting from the season of any month, comes
\* back to that season after 4 applications and not after 1, 2 or 3.
C27_SeasonCycle ==
    op = "get_upcoming_season" =>
      /\ ret \in {"Winter", "Spring", "Summer", "Fall"}
      /\ ret = SeasonByMonth[args.start] <=> args.applied % 4 = 0

\* Starting in January, the fourth application gives Winter again.
C27_Witness ==
    /\ op = "get_upcoming_season"
    /\ args.start = 1
    /\ args.applied = 4
    /\ ret = "Winter"

-----------------------------------------------------------------------------
(* The interactive two-attempt loop (checked under SpecDriver) *)

\* analyze_user_query has returned or the process has exited.
DriverTerminated == driver.pc \in {"done", "exited"}

\* analyze_query_terms is called at most twice, with attempt 1 and then,
\* only if the first result reports missing components, with attempt 2.
AnalyzedAtMostTwice ==
    /\ driver.analyzed \in {<<>>, <<1>>, <<1, 2>>}
    /\ driver.analyzed = <<1, 2>> => driver.missing # <<>>

\* Every component set handed to enrich_query_data is empty or holds an
\* objective, a temporal context and a geographical context.
EnrichedSetsComplete ==
    \A i \in 1..Len(driver.enriched) :
      \/ driver.enriched[i] = EmptyDict
      \/ {"objective", "temporal_context", "geographical_context"}
           \subseteq DOMAIN driver.enriched[i]

\* The calls and prompts made so far.  Every step of the driver is one
\* call of analyze_query_terms, one line read or one call of
\* enrich_query_data.
DriverSteps == Len(driver.analyzed) + Len(driver.typed) + Len(driver.enriched)

\* The user asked to leave at the prompt.
TypedQuit ==
    /\ driver.typed # <<>>
    /\ LowerText(Strip(driver.typed[Len(driver.typed)])) \in {"quit", "exit"}

\* C28 as stated: for every sequence of user inputs and service answers, at
\* most two analyses (attempt 1, then attempt 2 only after missing
\* components were reported), then exactly one call of enrich_query_data
\* before the loop ends, on a component set that is empty or has objective,
\* temporal_context and geographical_context.  The loop ends: every step is
\* one more call or prompt, and nothing happens after the end.
C28_AsStated ==
    /\ [](/\ AnalyzedAtMostTwice
          /\ EnrichedSetsComplete
          /\ Len(driver.enriched) <= 1
          /\ DriverTerminated => Len(driver.enriched) = 1)
    /\ [][DriverSteps' = DriverSteps + 1 /\ ~ DriverTerminated]_vars

\* C28: the same, except that a line "quit" or "exit" (in any case, blanks
\* around it ignored) typed at the prompt ends the process after the first
\* analysis without any call of enrich_query_data; on every other line the
\* loop goes on to the second analysis and to exactly one enrichment.
C28_TwoAttemptLoop ==
    /\ [](/\ AnalyzedAtMostTwice
          /\ EnrichedSetsComplete
          /\ Len(driver.enriched) <= 1
          /\ driver.pc = "done" => Len(driver.enriched) = 1 /\ ~ TypedQuit
          /\ driver.pc = "exited" =>
               driver.enriched = <<>> /\ driver.analyzed = <<1>> /\ TypedQuit
          /\ TypedQuit => driver.pc = "exited"
          /\ Len(driver.typed) <= 1)
    /\ [][DriverSteps' = DriverSteps + 1 /\ ~ DriverTerminated]_vars

\* The user completed the query at the prompt and the completed, defaulted
\* component set was enriched after the second analysis.
C28_Witness ==
    /\ driver.pc = "done"
    /\ driver.analyzed = <<1, 2>>
    /\ driver.typed = <<"Europe">>
    /\ driver.query = <<"shoes", "Europe">>
    /\ Len(driver.enriched) = 1
    /\ "focus_term" \in DOMAIN driver.enriched[1]
    /\ driver.enriched[1]["geographical_context"] = "europe"
    /\ driver.enriched[1]["temporal_context"] = "current"

\* The user typed " EXIT" at the prompt: one analysis, no enrichment.
C28_WitnessExit ==
    /\ driver.pc = "exited"
    /\ driver.typed = <<" EXIT">>
    /\ driver.analyzed = <<1>>
    /\ driver.enriched = <<>>

\* Unmatched terms alone do not lead to a prompt: the first result is
\* enriched as it is.
C28_WitnessUnmatched ==
    /\ driver.pc = "done"
    /\ driver.analyzed = <<1>>
    /\ "validation" \in DOMAIN driver.enriched[1]
    /\ driver.typed = <<>>

-----------------------------------------------------------------------------
(* Repeated keyword queries (checked under Spec) *)

\* The query strings of the keyword queries returned.
KeywordQueryStrings ==
    [i \in 1..Len(ret["keyword_queries"]) |-> ret["keyword_queries"][i].query]

HasDuplicate(s) == \E i, j \in 1..Len(s) : i < j /\ s[i] = s[j]

\* How many of the three optional components the generator was given: a
\* geographical context other than "global" in any case, a first temporal
\* term, a scope.
PresentComponents ==
    LET original == args.enriched_data["original"]
        metadata == args.enriched_data["metadata"]
        geo == GetOr(original, "geographical_context", "global")
        terms == metadata.temporal_terms
    IN (IF geo # "" /\ LowerText(geo) # "global" THEN 1 ELSE 0)
       + (IF terms # <<>> /\ terms[1] # "" THEN 1 ELSE 0)
       + (IF HasStr(original, "scope") THEN 1 ELSE 0)

\* C29 as stated: keyword_queries never contains the same query string
\* twice, whichever of geographical context, temporal term and scope are
\* present.
C29_AsStated == GeneratedOk => ~ HasDuplicate(KeywordQueryStrings)

\* C29: keyword_queries contains a query string twice exactly when one and
\* only one of geographical context, temporal term and scope is present;
\* the list is then <<full, base, full>>: the query of that component
\* repeats the most specific query.
C29_DuplicateIffOneComponent ==
    GeneratedOk =>
      /\ HasDuplicate(KeywordQueryStrings) <=> PresentComponents = 1
      /\ PresentComponents = 1 =>
           /\ Len(KeywordQueryStrings) = 3
           /\ KeywordQueryStrings[1] = KeywordQueryStrings[3]
           /\ KeywordQueryStrings[2] # KeywordQueryStrings[1]

\* Only the temporal term is present ("Global" is left out, no scope): the
\* temporal query repeats the full query.
C29_Witness ==
    /\ GeneratedOk
    /\ PresentComponents = 1
    /\ args.enriched_data["original"]["geographical_context"] = "Global"
    /\ KeywordQueryStrings[1] = KeywordQueryStrings[3]
    /\ Len(KeywordQueryStrings[1]) > Len(KeywordQueryStrings[2])

\* Two components present: four distinct queries.
C29_WitnessDistinct ==
    /\ GeneratedOk
    /\ PresentComponents = 2
    /\ Len(KeywordQueryStrings) = 4
    /\ ~ HasDuplicate(KeywordQueryStrings)

\* No component present: the base query alone.
C29_WitnessBase ==
    /\ GeneratedOk
    /\ PresentComponents = 0
    /\ Len(KeywordQueryStrings) = 1

-----------------------------------------------------------------------------
(* The year of "next season" (checked under Spec) *)

\* An enrichment that succeeded on a temporal context containing
\* "next season" in any letter case.
NextSeasonEnriched ==
    /\ Enriched
    /\ "temporal_context" \in DOMAIN args.query_components
    /\ Contains(LowerText(args.query_components["temporal_context"]), "next season")

FirstMonthOf ==
    [Spring |-> "March", Summer |-> "June", Fall |-> "September", Winter |-> "December"]

\* C30: for a temporal context containing "next season", temporal_terms is
\* exactly ["<S> <current year + 1>", "<first month of S> <current year + 1>"]
\* with S the upcoming season of the current month, in every month; the
\* first term differs from what validate_temporal gives for "next season",
\* which carries the current year.
C30_NextSeasonNextYear ==
    NextSeasonEnriched =>
      LET S == SuccessorByMonth[args.now.month]
          next_year == IntToStr(args.now.year + 1)
          validated == validate_temporal("next season", args.now).ret
      IN /\ ret["metadata"].temporal_terms
              = <<S \o " " \o next_year, FirstMonthOf[S] \o " " \o next_year>>
         /\ validated = <<TRUE, S \o " " \o IntToStr(args.now.year)>>
         /\ ret["metadata"].temporal_terms[1] # validated[2]

\* January 2025: the upcoming season, Spring, begins in 2025, and the terms
\* say 2026.
C30_Witness ==
    /\ NextSeasonEnriched
    /\ args.now = [year |-> 2025, month |-> 1]
    /\ ret["metadata"].temporal_terms = <<"Spring 2026", "March 2026">>

\* November 2025: the upcoming season, Winter, begins in December 2025.
C30_WitnessWinter ==
    /\ NextSeasonEnriched
    /\ args.query_components["temporal_context"] = "Next Season"
    /\ args.now = [year |-> 2025, month |-> 11]
    /\ ret["metadata"].temporal_terms = <<"Winter 2026", "December 2026">>

====
